---- MODULE Spec2Model ----
(***************************************************************************)
(* Kolkata Metro Sarathi: the graph builder and the minimum-switch route   *)
(* search of backend/PathFinder/PathShower.py.                             *)
(*                                                                         *)
(* Station names and line names are strings in the source; the search      *)
(* orders them (heap tuples, min(lines_between)), so they are modelled as  *)
(* naturals whose order stands for the string order.  Python's None is the *)
(* empty tuple; a returned path is never empty, so the first component of  *)
(* a result tells a route from the 4-tuple of None.  The heap is the set   *)
(* of its entries and a pop takes the least in Python's tuple order.  The  *)
(* for loops over a set or a dict visit their items in any order.          *)
(***************************************************************************)
EXTENDS Naturals, Sequences, FiniteSets

\* ---------------------------------------------------------------- bounds
\* the network family of Spec
NumStations == 3
NumLines == 2
MaxLineLen == 2
\* the wider network family of SpecWide
WideStations == 4
WideLines == 3
WideLineLen == 3
\* the network family of the two-query specification SpecConc
ConcStations == 3
ConcLines == 2
ConcLineLen == 3
\* the longest line definition of SpecMalformed
MalformedLineLen == 3

Stations == 1..NumStations
Queries == {1, 2}

None == <<>>

VARIABLES
    line_items,     \* the builder's argument: <<line_name, stations>> per line
    bpc,            \* the builder's position
    li,             \* index of the line the builder is on
    bi,             \* index i of the consecutive pair the builder is on
    graph,          \* graph[station][neighbor] = set of line names
    station_lines,  \* station_lines[station] = set of line names
    pc,             \* per query: position in find_min_switch_path
    src,            \* per query: argument src
    dest,           \* per query: argument dest
    pq,             \* per query: the heap, as the set of its entries
    visited,        \* per query: visited[<<station, line>>] = <<switches, stations>>
    cur,            \* per query: the entry popped last
    todo,           \* per query: what the running for loop has still to visit
    best_final,     \* per query: best_final
    result,         \* per query: the returned 4-tuple
    pushed,         \* per query, history: every entry given to heappush so far
    pushes,         \* per query, history: the number of heappush calls so far
    expansions,     \* per query, history: per <<station, line>>, how often its
                    \* neighbors were relaxed
    metro_graph     \* CombinedGraph.py: metro_graph[station] = neighbor list

bvars == <<line_items, bpc, li, bi, graph, station_lines, metro_graph>>
hvars == <<pushed, pushes, expansions>>
qvars == <<pc, src, dest, pq, visited, cur, todo, best_final, result,
           pushed, pushes, expansions>>
vars == <<line_items, bpc, li, bi, graph, station_lines,
          pc, src, dest, pq, visited, cur, todo, best_final, result,
          pushed, pushes, expansions, metro_graph>>

\* ---------------------------------------------------------------- helpers
Range(s) == {s[k] : k \in DOMAIN s}

\* a dict with one more (or one overwritten) item
Put(f, k, v) == [x \in DOMAIN f \cup {k} |-> IF x = k THEN v ELSE f[x]]

EmptyDict == [x \in {} |-> {}]

\* dict(line_dict).keys(): the keys of a dict are pairwise distinct
LineSeqs(ns, ml) ==
    {s \in UNION {[1..n -> 1..ns] : n \in 0..ml} :
        \A a, b \in DOMAIN s : a # b => s[a] # s[b]}

\* the keys a dict holds when its items are written in the order s: a key
\* written again keeps the place of its first occurrence
RECURSIVE DictKeys(_)
DictKeys(s) ==
    IF s = <<>> THEN <<>>
    ELSE LET front == DictKeys(SubSeq(s, 1, Len(s) - 1))
         IN  IF s[Len(s)] \in Range(front) THEN front
             ELSE Append(front, s[Len(s)])

\* line definitions as they can be written: a station may be listed again
LineDefs(ns, ml) == UNION {[1..n -> 1..ns] : n \in 0..ml}

\* line_items as LINE_ITEMS lists them: nl lines, named in ascending order
Networks(ns, nl, ml) ==
    {[k \in 1..nl |-> <<k, f[k]>>] : f \in [1..nl -> LineSeqs(ns, ml)]}

\* ---------------------------------------------------------------- builder
\* defaultdict(set): station_lines[s].add(line_name)
AddStationLine(sl, s, line_name) ==
    Put(sl, s, (IF s \in DOMAIN sl THEN sl[s] ELSE {}) \cup {line_name})

\* variant: the station loop run over range(len(stations) - 1), like the
\* pair loop, so that the last station of a line is left out
RECURSIVE AddStationsButLast(_, _, _)
AddStationsButLast(sl, stations, line_name) ==
    IF Len(stations) <= 1 THEN sl
    ELSE AddStationsButLast(AddStationLine(sl, Head(stations), line_name),
                            Tail(stations), line_name)

\* lines 66-68: the loop "for s in stations" of one line
RECURSIVE AddStations(_, _, _)
AddStations(sl, stations, line_name) ==
    IF stations = <<>> THEN sl
    ELSE AddStations(AddStationLine(sl, Head(stations), line_name),
                     Tail(stations), line_name)

\* defaultdict(lambda: defaultdict(set)): graph[a][b].add(line_name)
AddLabel(g, a, b, line_name) ==
    LET row == IF a \in DOMAIN g THEN g[a] ELSE EmptyDict
        old == IF b \in DOMAIN row THEN row[b] ELSE {}
    IN  Put(g, a, Put(row, b, old \cup {line_name}))

\* variant: the reverse direction graph[b][a] forgotten
OneWayAddPair(g, a, b, line_name) == AddLabel(g, a, b, line_name)

\* graph[a][b].add(line_name); graph[b][a].add(line_name)
AddPair(g, a, b, line_name) ==
    AddLabel(AddLabel(g, a, b, line_name), b, a, line_name)

LineName(k) == line_items[k][1]
\* line 65: stations = list(line_dict.keys())
LineStations(k) == DictKeys(line_items[k][2])

\* after line k is finished: the next line, or the end of the outer loop
AfterLine(k) ==
    IF k < Len(line_items)
    THEN /\ li' = k + 1
         /\ bpc' = "stations"
    ELSE /\ li' = k
         /\ bpc' = "return"

\* lines 65-68: stations = list(line_dict.keys()); for s in stations: ...
BuildStations ==
    /\ bpc = "stations"
    /\ station_lines' = AddStations(station_lines, LineStations(li), LineName(li))
    /\ bi' = 1
    /\ IF Len(LineStations(li)) >= 2
       THEN bpc' = "pairs" /\ li' = li
       ELSE AfterLine(li)
    /\ UNCHANGED <<line_items, graph, metro_graph>>
    /\ UNCHANGED qvars

\* lines 69-72: one iteration of "for i in range(len(stations) - 1)"
BuildPair ==
    /\ bpc = "pairs"
    /\ graph' = AddPair(graph, LineStations(li)[bi], LineStations(li)[bi + 1],
                        LineName(li))
    /\ IF bi + 1 < Len(LineStations(li))
       THEN bi' = bi + 1 /\ bpc' = "pairs" /\ li' = li
       ELSE bi' = bi /\ AfterLine(li)
    /\ UNCHANGED <<line_items, station_lines, metro_graph>>
    /\ UNCHANGED qvars

\* lines 74-75: return graph, station_lines, ...; the builder's locals end
BuildReturn ==
    /\ bpc = "return"
    /\ bpc' = "built"
    /\ line_items' = <<>>
    /\ UNCHANGED <<li, bi, graph, station_lines, metro_graph>>
    /\ UNCHANGED qvars

Build == BuildStations \/ BuildPair \/ BuildReturn

\* ------------------------------------------------------- CombinedGraph.py
\* variant: only the station after position i, the test "if i > 0" and its
\* add forgotten
SuccessorInLine(stations, i) ==
    IF i < Len(stations) THEN {stations[i + 1]} ELSE {}

\* CombinedGraph.py lines 24-27: the neighbors position i of a line adds
NeighborsInLine(stations, i) ==
    (IF i > 1 THEN {stations[i - 1]} ELSE {})
        \cup (IF i < Len(stations) THEN {stations[i + 1]} ELSE {})

\* CombinedGraph.py lines 20-27: the loop over enumerate(stations) from
\* position i on; a station not yet a key starts with an empty set
RECURSIVE AddLineNeighbors(_, _, _)
AddLineNeighbors(mg, stations, i) ==
    IF i > Len(stations) THEN mg
    ELSE LET station == stations[i]
             old == IF station \in DOMAIN mg THEN mg[station] ELSE {}
         IN  AddLineNeighbors(Put(mg, station, old \cup NeighborsInLine(stations, i)),
                              stations, i + 1)

\* CombinedGraph.py lines 16-27: the loop over the lines from line k on
RECURSIVE NeighborSets(_, _, _)
NeighborSets(mg, items, k) ==
    IF k > Len(items) THEN mg
    ELSE NeighborSets(AddLineNeighbors(mg, DictKeys(items[k][2]), 1), items, k + 1)

\* sorted(list(S)): the members of S in ascending order
RECURSIVE Sorted(_)
Sorted(S) ==
    IF S = {} THEN <<>>
    ELSE LET least == CHOOSE x \in S : \A y \in S : x <= y
         IN  <<least>> \o Sorted(S \ {least})

\* CombinedGraph.py lines 16-31: the script, run on the lines the builder is
\* given
CombinedGraph ==
    /\ metro_graph = None
    /\ bpc # "built"
    /\ metro_graph' =
           LET sets == NeighborSets(EmptyDict, line_items, 1)
           IN  [station \in DOMAIN sets |-> Sorted(sets[station])]
    /\ UNCHANGED <<line_items, bpc, li, bi, graph, station_lines>>
    /\ UNCHANGED qvars

\* ---------------------------------------------------------------- search
\* the neighbors graph[a] lists (none for a station without a row)
Nbrs(g, a) == IF a \in DOMAIN g THEN DOMAIN g[a] ELSE {}

\* the directed edges <<a, b>> of the graph
Edges(g) == UNION {{<<a, b>> : b \in DOMAIN g[a]} : a \in DOMAIN g}

Known(s) == s \in DOMAIN station_lines

\* (a, b) < (c, d) on Python tuples of two ints
LexLess(x, y) == x[1] < y[1] \/ (x[1] = y[1] /\ x[2] < y[2])

\* the order heapq keeps: Python's < on the tuples
\* (switches, stations_count, curr, curr_line, parent)
RECURSIVE TupleLess(_, _)
TupleLess(x, y) ==
    IF x[1] # y[1] THEN x[1] < y[1]
    ELSE IF x[2] # y[2] THEN x[2] < y[2]
    ELSE IF x[3] # y[3] THEN x[3] < y[3]
    ELSE IF x[4] # y[4] THEN x[4] < y[4]
    ELSE IF x[5] = None \/ y[5] = None THEN FALSE
    ELSE TupleLess(x[5], y[5])

\* whether Python can order the two tuples: None < tuple raises TypeError
RECURSIVE CanCompare(_, _)
CanCompare(x, y) ==
    IF <<x[1], x[2], x[3], x[4]>> # <<y[1], y[2], y[3], y[4]>> THEN TRUE
    ELSE IF x[5] = y[5] THEN TRUE
    ELSE IF x[5] = None \/ y[5] = None THEN FALSE
    ELSE CanCompare(x[5], y[5])

Orderable(h) == \A x, y \in h : CanCompare(x, y)

\* variant: a heap ordered by (switches, stations_count) alone, which leaves
\* the choice among entries of equal cost to the order they were pushed in
CostTies(h) == {x \in h : \A y \in h : ~LexLess(<<y[1], y[2]>>, <<x[1], x[2]>>)}

\* variant: a plain list in place of the heap, popped in no order
AnyEntry(h) == h

\* heapq.heappop(pq): the least entry of the heap
PopCandidates(h) == {x \in h : \A y \in h : y = x \/ TupleLess(x, y)}

\* variant: <= in place of <, which also skips the entry that holds the
\* best known cost
StaleOrEqual(vis, e) ==
    /\ <<e[3], e[4]>> \in DOMAIN vis
    /\ ~LexLess(<<e[1], e[2]>>, vis[<<e[3], e[4]>>])

\* variant: the stale check left out, every popped entry goes on
StaleCheckOmitted(vis, e) == FALSE

\* line 100: visited.get((curr, curr_line), (inf, inf)) < (switches, stations_count)
Stale(vis, e) ==
    /\ <<e[3], e[4]>> \in DOMAIN vis
    /\ LexLess(vis[<<e[3], e[4]>>], <<e[1], e[2]>>)

Min(S) == CHOOSE x \in S : \A y \in S : x <= y

\* lines 109-112: stay on curr_line if the edge has it, else min(lines_between)
EdgeLine(curr_line, lines_between) ==
    IF curr_line \in lines_between THEN curr_line ELSE Min(lines_between)

\* variant: new_stations = stations_count, the + 1 forgotten
CandidateNoHop(e, nbr, lines_between) ==
    LET edge_line == EdgeLine(e[4], lines_between)
    IN  <<e[1] + (IF edge_line # e[4] THEN 1 ELSE 0), e[2], nbr, edge_line, e>>

\* variant: boarding counted, so that a first hop on a line other than the
\* line of the source state it leaves costs a switch as well as any change
CandidateCountsBoarding(e, nbr, lines_between) ==
    LET edge_line == EdgeLine(e[4], lines_between)
    IN  <<e[1] + (IF edge_line # e[4] \/ e[5] = None THEN 1 ELSE 0), e[2] + 1, nbr,
          edge_line, e>>

\* lines 107-117, 122-123: the entry the edge from the popped entry e to nbr
\* offers: (new_switches, new_stations, nbr, edge_line, e)
Candidate(e, nbr, lines_between) ==
    LET edge_line == EdgeLine(e[4], lines_between)
    IN  <<e[1] + (IF edge_line # e[4] THEN 1 ELSE 0), e[2] + 1, nbr, edge_line, e>>

\* variant: the test against the best known cost left out, every offer is
\* recorded and pushed
PushAlways(vis, key, new) == TRUE

\* lines 118-120: (new_switches, new_stations) < visited.get(key, (inf, inf))
Improves(vis, key, new) == key \notin DOMAIN vis \/ LexLess(new, vis[key])

\* variant: one visited table shared by all calls (a module-level dict)
StoreVisitedShared(vis, q, key, cost) == [p \in DOMAIN vis |-> Put(vis[p], key, cost)]

\* lines 87, 92, 121: visited is a local of the call; visited[key] = cost
StoreVisited(vis, q, key, cost) == [vis EXCEPT ![q] = Put(@, key, cost)]

\* how often a key was counted in a table of counts
Count(c, key) == IF key \in DOMAIN c THEN c[key] ELSE 0

\* graph[curr] on the defaultdict: a missing key is inserted with an empty dict
Touch(g, s) == IF s \in DOMAIN g THEN g ELSE Put(g, s, EmptyDict)

\* lines 130-137: the back-pointer chain, last station first
RECURSIVE RevEntries(_)
RevEntries(e) == IF e = None THEN <<>> ELSE <<e>> \o RevEntries(e[5])

\* list.reverse()
Reverse(s) == [k \in 1..Len(s) |-> s[Len(s) + 1 - k]]

NoneResult == <<None, None, None, None>>

\* variant: lines_for_edges taken from rev_lines[i], the line of the state an
\* edge leaves, in place of rev_lines[i + 1]
ReconstructDeparting(bf) ==
    IF bf = None THEN NoneResult
    ELSE LET ents == RevEntries(bf)
             rev_stations == Reverse([k \in 1..Len(ents) |-> ents[k][3]])
             rev_lines == Reverse([k \in 1..Len(ents) |-> ents[k][4]])
             lines_for_edges == [k \in 1..(Len(rev_stations) - 1) |-> rev_lines[k]]
         IN  <<rev_stations, bf[1], bf[2], lines_for_edges>>

\* lines 125-147
Reconstruct(bf) ==
    IF bf = None THEN NoneResult
    ELSE LET ents == RevEntries(bf)
             rev_stations == Reverse([k \in 1..Len(ents) |-> ents[k][3]])
             rev_lines == Reverse([k \in 1..Len(ents) |-> ents[k][4]])
             lines_for_edges == [k \in 1..(Len(rev_stations) - 1) |-> rev_lines[k + 1]]
         IN  <<rev_stations, bf[1], bf[2], lines_for_edges>>

\* lines 83-92 up to the first iteration of "for line in station_lines[src]"
Call(q, s, d) ==
    /\ bpc = "built"
    /\ pc[q] = "idle"
    /\ src' = [src EXCEPT ![q] = s]
    /\ dest' = [dest EXCEPT ![q] = d]
    /\ IF ~Known(s) \/ ~Known(d)
       THEN /\ result' = [result EXCEPT ![q] = NoneResult]
            /\ pc' = [pc EXCEPT ![q] = "done"]
            /\ UNCHANGED todo
       ELSE /\ todo' = [todo EXCEPT ![q] = station_lines[s]]
            /\ pc' = [pc EXCEPT ![q] = IF station_lines[s] = {} THEN "loop" ELSE "init"]
            /\ UNCHANGED result
    /\ UNCHANGED <<pq, visited, cur, best_final>>
    /\ UNCHANGED hvars
    /\ UNCHANGED bvars

\* lines 90-92: one iteration of "for line in station_lines[src]", in any order
InitPush(q) ==
    /\ pc[q] = "init"
    /\ \E line \in todo[q] :
        /\ pq' = [pq EXCEPT ![q] = @ \cup {<<0, 0, src[q], line, None>>}]
        /\ pushed' = [pushed EXCEPT ![q] = @ \cup {<<0, 0, src[q], line, None>>}]
        /\ pushes' = [pushes EXCEPT ![q] = @ + 1]
        /\ visited' = StoreVisited(visited, q, <<src[q], line>>, <<0, 1>>)
        /\ todo' = [todo EXCEPT ![q] = @ \ {line}]
        /\ pc' = [pc EXCEPT ![q] = IF todo[q] = {line} THEN "loop" ELSE "init"]
    /\ UNCHANGED <<src, dest, cur, best_final, result, expansions>>
    /\ UNCHANGED bvars

\* lines 96-107: the loop test, the pop, the stale check, the destination
\* check and the evaluation of graph[curr].items()
Pop(q) ==
    /\ pc[q] = "loop"
    /\ IF pq[q] = {}
       THEN /\ pc' = [pc EXCEPT ![q] = "exit"]
            /\ UNCHANGED <<pq, cur, todo, best_final, graph, expansions>>
       ELSE IF ~Orderable(pq[q])
       THEN /\ pc' = [pc EXCEPT ![q] = "raised"]
            /\ UNCHANGED <<pq, cur, todo, best_final, graph, expansions>>
       ELSE \E e \in PopCandidates(pq[q]) :
            /\ pq' = [pq EXCEPT ![q] = @ \ {e}]
            /\ cur' = [cur EXCEPT ![q] = e]
            /\ IF Stale(visited[q], e)
               THEN /\ pc' = [pc EXCEPT ![q] = "loop"]
                    /\ UNCHANGED <<todo, best_final, graph, expansions>>
               ELSE IF e[3] = dest[q]
               THEN /\ best_final' = [best_final EXCEPT ![q] = e]
                    /\ pc' = [pc EXCEPT ![q] = "exit"]
                    /\ UNCHANGED <<todo, graph, expansions>>
               ELSE /\ graph' = Touch(graph, e[3])
                    /\ expansions' = [expansions EXCEPT ![q] =
                           Put(@, <<e[3], e[4]>>, Count(@, <<e[3], e[4]>>) + 1)]
                    /\ todo' = [todo EXCEPT ![q] = DOMAIN graph'[e[3]]]
                    /\ pc' = [pc EXCEPT ![q] =
                                 IF DOMAIN graph'[e[3]] = {} THEN "loop" ELSE "relax"]
                    /\ UNCHANGED best_final
    /\ UNCHANGED <<src, dest, visited, result, pushed, pushes>>
    /\ UNCHANGED <<line_items, bpc, li, bi, station_lines, metro_graph>>

\* lines 107-123: one iteration of "for nbr, lines_between in graph[curr].items()",
\* in any order
Relax(q) ==
    /\ pc[q] = "relax"
    /\ \E nbr \in todo[q] :
        LET new == Candidate(cur[q], nbr, graph[cur[q][3]][nbr])
            key == <<new[3], new[4]>>
        IN  /\ IF Improves(visited[q], key, <<new[1], new[2]>>)
               THEN /\ visited' = StoreVisited(visited, q, key, <<new[1], new[2]>>)
                    /\ pq' = [pq EXCEPT ![q] = @ \cup {new}]
                    /\ pushed' = [pushed EXCEPT ![q] = @ \cup {new}]
                    /\ pushes' = [pushes EXCEPT ![q] = @ + 1]
               ELSE UNCHANGED <<visited, pq, pushed, pushes>>
            /\ todo' = [todo EXCEPT ![q] = @ \ {nbr}]
            /\ pc' = [pc EXCEPT ![q] = IF todo[q] = {nbr} THEN "loop" ELSE "relax"]
    /\ UNCHANGED <<src, dest, cur, best_final, result, expansions>>
    /\ UNCHANGED bvars

\* lines 125-147: the not-found return, or the reconstruction and the return
Finish(q) ==
    /\ pc[q] = "exit"
    /\ result' = [result EXCEPT ![q] = Reconstruct(best_final[q])]
    /\ pc' = [pc EXCEPT ![q] = "done"]
    /\ UNCHANGED <<src, dest, pq, visited, cur, todo, best_final>>
    /\ UNCHANGED hvars
    /\ UNCHANGED bvars

Query(q, S) ==
    \/ \E s, d \in S : Call(q, s, d)
    \/ InitPush(q)
    \/ Pop(q)
    \/ Relax(q)
    \/ Finish(q)

InitQueries ==
    /\ pc = [q \in Queries |-> "idle"]
    /\ src = [q \in Queries |-> 0]
    /\ dest = [q \in Queries |-> 0]
    /\ pq = [q \in Queries |-> {}]
    /\ visited = [q \in Queries |-> EmptyDict]
    /\ cur = [q \in Queries |-> None]
    /\ todo = [q \in Queries |-> {}]
    /\ best_final = [q \in Queries |-> None]
    /\ result = [q \in Queries |-> None]
    /\ pushed = [q \in Queries |-> {}]
    /\ pushes = [q \in Queries |-> 0]
    /\ expansions = [q \in Queries |-> EmptyDict]

InitBuild(nets) ==
    /\ line_items \in nets
    /\ bpc = IF Len(line_items) = 0 THEN "return" ELSE "stations"
    /\ li = 1
    /\ bi = 1
    /\ graph = EmptyDict
    /\ station_lines = EmptyDict
    /\ metro_graph = None

\* main(): the build, then one query
Init == InitBuild(Networks(NumStations, NumLines, MaxLineLen)) /\ InitQueries

Next == Build \/ Query(1, Stations)

Spec == Init /\ [][Next]_vars

\* main() as the interpreter runs it: a statement that can run does run
SpecLive == Init /\ [][Next]_vars /\ WF_vars(Next)

\* the same program on the wider network family
InitWide == InitBuild(Networks(WideStations, WideLines, WideLineLen)) /\ InitQueries

NextWide == Build \/ Query(1, 1..WideStations)

SpecWide == InitWide /\ [][NextWide]_vars

\* the same program given line definitions that may list a station twice
InitMalformed ==
    /\ InitBuild({[k \in 1..NumLines |-> <<k, f[k]>>] :
                    f \in [1..NumLines -> LineDefs(NumStations, MalformedLineLen)]})
    /\ InitQueries

SpecMalformed == InitMalformed /\ [][Next]_vars

\* a network of three lines, L1 = A-B, L2 = B-C, L3 = E-B-C-D (A..E = 1..5),
\* and the family of its stages of opening: every line a section of its own
LoopLines == <<<<1, 2>>, <<2, 3>>, <<5, 2, 3, 4>>>>

LoopStations == UNION {Range(LoopLines[k]) : k \in DOMAIN LoopLines}

Sections(s) == {SubSeq(s, a, b) : a \in 1..(Len(s) + 1), b \in 0..Len(s)}

LoopNetworks ==
    {[k \in DOMAIN LoopLines |-> <<k, f[k]>>] :
        f \in {g \in [DOMAIN LoopLines -> UNION {Sections(LoopLines[k]) : k \in DOMAIN LoopLines}] :
                  \A k \in DOMAIN LoopLines : g[k] \in Sections(LoopLines[k])}}

InitLoop == InitBuild(LoopNetworks) /\ InitQueries

NextLoop == Build \/ Query(1, LoopStations)

SpecLoop == InitLoop /\ [][NextLoop]_vars

\* the two builders run on the same lines, in any interleaving
NextCombined == Build \/ CombinedGraph

SpecCombined == Init /\ [][NextCombined]_vars

\* a server: the build, then two queries on the shared graph, interleaved
InitConc == InitBuild(Networks(ConcStations, ConcLines, ConcLineLen)) /\ InitQueries

NextConc == Build \/ \E q \in Queries : Query(q, 1..ConcStations)

SpecConc == InitConc /\ [][NextConc]_vars

\* ------------------------------------------------- one call, run on its own
\* lines 107-123: the whole for loop over the neighbors of the popped entry e;
\* returns <<pq, visited>>
RECURSIVE RelaxAll(_, _, _, _, _)
RelaxAll(h, vis, g, e, nbrs) ==
    IF nbrs = {} THEN <<h, vis>>
    ELSE LET nbr == CHOOSE x \in nbrs : TRUE
             new == Candidate(e, nbr, g[e[3]][nbr])
             key == <<new[3], new[4]>>
         IN  IF Improves(vis, key, <<new[1], new[2]>>)
             THEN RelaxAll(h \cup {new}, Put(vis, key, <<new[1], new[2]>>), g, e,
                           nbrs \ {nbr})
             ELSE RelaxAll(h, vis, g, e, nbrs \ {nbr})

\* lines 94-123: the while loop; returns best_final
RECURSIVE SearchLoop(_, _, _, _)
SearchLoop(h, vis, g, d) ==
    IF h = {} THEN None
    ELSE LET e == CHOOSE x \in PopCandidates(h) : TRUE
             r == RelaxAll(h \ {e}, vis, g, e, Nbrs(g, e[3]))
         IN  IF Stale(vis, e) THEN SearchLoop(h \ {e}, vis, g, d)
             ELSE IF e[3] = d THEN e
             ELSE SearchLoop(r[1], r[2], g, d)

\* lines 78-147: what a call returns when nothing else runs
find_min_switch_path(g, sl, s, d) ==
    IF s \notin DOMAIN sl \/ d \notin DOMAIN sl THEN NoneResult
    ELSE Reconstruct(SearchLoop({<<0, 0, s, line, None>> : line \in sl[s]},
                                [k \in {<<s, line>> : line \in sl[s]} |-> <<0, 1>>],
                                g, d))

\* ---------------------------------------------------------------- claims
Done(q) == pc[q] = "done"
Found(q) == result[q] # NoneResult

\* the line names on the edges of g
Labels(g) == UNION {g[e[1]][e[2]] : e \in Edges(g)}

\* one more edge on every route: <<station, line ridden last, switches>>;
\* the first edge is no switch; routes of more than m switches are dropped
RouteStep(g, R, m) ==
    {x \in UNION {UNION {{<<b, l, r[3] + (IF r[2] # 0 /\ r[2] # l THEN 1 ELSE 0)>> :
                            l \in g[r[1]][b]} : b \in Nbrs(g, r[1])} : r \in R} :
        x[3] <= m}

\* the routes of exactly k edges and at most m switches from s
RECURSIVE Routes(_, _, _, _)
Routes(g, s, k, m) ==
    IF k = 0 THEN {<<s, 0, 0>>} ELSE RouteStep(g, Routes(g, s, k - 1, m), m)

\* a cheapest route visits no (station, line) pair twice
MaxHops(g) == Cardinality(DOMAIN g) * Cardinality(Labels(g))

\* the <<switches, hops>> pairs of the valid routes from s to d that have at
\* most m switches
RouteCosts(g, s, d, m) ==
    UNION {{<<r[3], k>> : r \in {x \in Routes(g, s, k, m) : x[1] = d}} :
           k \in 0..MaxHops(g)}

\* C1: a returned route is optimal: no valid route from source to destination
\* has a lexicographically smaller (switches, stations) pair, stations counted
\* as the returned count counts them.
C1_Optimality ==
    \A q \in Queries :
        Done(q) /\ Found(q) =>
            ~\E c \in RouteCosts(graph, src[q], dest[q], result[q][2]) :
                LexLess(c, <<result[q][2], result[q][3]>>)

\* C2: the returned station count is the number of stations of the returned
\* path, source included.
C2_StationCount ==
    \A q \in Queries :
        Done(q) /\ Found(q) => result[q][3] = Len(result[q][1])

\* C3: a query from a known station X to itself returns the path [X] with
\* 0 switches, a station count of 1 and no per-edge lines.
C3_Reflexive ==
    \A q \in Queries :
        Done(q) /\ Known(src[q]) /\ src[q] = dest[q] =>
            result[q] = <<(<<src[q]>>), 0, 1, <<>>>>

\* what line 126 returns for two known stations that no route connects
NotFoundOutcome == Reconstruct(None)

\* C4: a query with an unknown source or destination ends with an outcome
\* that is not the not-found outcome; it never raises and returns no path.
C4_UnknownStation ==
    \A q \in Queries :
        /\ pc[q] # "raised"
        /\ Done(q) /\ (~Known(src[q]) \/ ~Known(dest[q])) =>
              /\ result[q][1] = None
              /\ result[q] # NotFoundOutcome

\* the stations a walk along graph edges reaches from the stations of R
RECURSIVE Closure(_, _)
Closure(g, R) ==
    LET N == R \cup UNION {Nbrs(g, a) : a \in R}
    IN  IF N = R THEN R ELSE Closure(g, N)

Connected(g, s, d) == d \in Closure(g, {s})

\* C5: for two known stations the call returns the not-found outcome exactly
\* when no walk along graph edges connects them; otherwise it returns a path,
\* and it never raises.
C5_Reachability ==
    \A q \in Queries :
        /\ pc[q] # "raised"
        /\ Done(q) /\ Known(src[q]) /\ Known(dest[q]) =>
              (result[q] = NoneResult <=> ~Connected(graph, src[q], dest[q]))

\* the source has an edge, so the search expanded it, and the call returned
\* not-found for a known destination
C5_Witness ==
    \E q \in Queries :
        /\ Done(q) /\ Known(src[q]) /\ Known(dest[q])
        /\ Nbrs(graph, src[q]) # {}
        /\ result[q] = NoneResult

\* C6: the graph is symmetric, in the returned graph and after every finished
\* pair of the build loop: B is a neighbor of A with label set L exactly when
\* A is a neighbor of B with label set L.
C6_Symmetry ==
    \A a \in DOMAIN graph : \A b \in DOMAIN graph[a] :
        /\ b \in DOMAIN graph
        /\ a \in DOMAIN graph[b]
        /\ graph[b][a] = graph[a][b]

\* in the middle of the build: the pair of the first line is in the graph and
\* the pair of the second line is not yet
C6_Witness ==
    /\ bpc = "pairs" /\ li = 2
    /\ Edges(graph) # {}

LinesWith(s) == {k \in DOMAIN line_items : s \in Range(LineStations(k))}

\* the labels of the edges incident to s, in either direction
IncidentLabels(g, s) ==
    UNION {g[e[1]][e[2]] : e \in {x \in Edges(g) : x[1] = s \/ x[2] = s}}

\* C7: when the build loops end, the keys of station_lines are the stations
\* that occur in some line, station_lines[s] is the set of names of the lines
\* containing s, and the labels of the edges at s are a subset of it, equal to
\* it when every line containing s has at least two stations.
C7_StationLines ==
    bpc = "return" =>
        /\ DOMAIN station_lines = UNION {Range(LineStations(k)) : k \in DOMAIN line_items}
        /\ \A s \in DOMAIN station_lines :
            /\ station_lines[s] = {LineName(k) : k \in LinesWith(s)}
            /\ IncidentLabels(graph, s) \subseteq station_lines[s]
            /\ (\A k \in LinesWith(s) : Len(LineStations(k)) >= 2) =>
                   IncidentLabels(graph, s) = station_lines[s]

\* a station of a one-station line that another line passes through: the
\* labels of its edges are some, but not all, of its lines
C7_Witness ==
    /\ bpc = "return"
    /\ \E s \in DOMAIN station_lines :
        /\ IncidentLabels(graph, s) # station_lines[s]
        /\ IncidentLabels(graph, s) # {}

\* C8: whatever order a run iterates station_lines[source] and the neighbors
\* of a station in, it returns the path, switch count, station count and
\* per-edge lines that are a function of graph, station_lines, source and
\* destination alone.
C8_Determinism ==
    \A q \in Queries :
        Done(q) => result[q] = find_min_switch_path(graph, station_lines, src[q], dest[q])

\* a finished run whose source is on two lines and has two neighbors
C8_Witness ==
    \E q \in Queries :
        /\ Done(q) /\ Found(q) /\ Len(result[q][1]) >= 2
        /\ Cardinality(station_lines[src[q]]) >= 2
        /\ Cardinality(Nbrs(graph, src[q])) >= 2

\* C9: a call leaves graph and station_lines as they were.
C9_NoSideEffects ==
    [][bpc = "built" => graph' = graph /\ station_lines' = station_lines]_vars

\* the search state of call q: arguments, position, frontier, best-cost table,
\* popped entry with its back-pointers, loop remainder, best_final, result
Local(q) ==
    <<src[q], dest[q], pc[q], pq[q], visited[q], cur[q], todo[q], best_final[q], result[q]>>

\* no step changes the search state of two calls
OwnStateOnly ==
    \A p, q \in Queries :
        p # q /\ Local(p)' # Local(p) => Local(q)' = Local(q)

\* a call that has returned, returned what it returns when run alone
AsAlone ==
    \A q \in Queries :
        /\ pc[q] # "raised"
        /\ Done(q) => result[q] = find_min_switch_path(graph, station_lines, src[q], dest[q])

\* C10: two calls interleaved on the shared graph and station_lines: a step
\* of one call changes nothing of the other call's search state, and each
\* call returns what it returns when run alone.
C10_Concurrent == []AsAlone /\ [][OwnStateOnly]_vars

\* one call has returned a route of two hops or more while the other call,
\* a different query, is in the middle of a relaxation loop
C10_Witness ==
    /\ Done(1) /\ Found(1) /\ Len(result[1][1]) >= 3
    /\ pc[2] = "relax" /\ pq[2] # {}
    /\ <<src[1], dest[1]>> # <<src[2], dest[2]>>

\* a line definition that lists some station more than once
Malformed(items) ==
    \E k \in DOMAIN items : \E a, b \in DOMAIN items[k][2] :
        a # b /\ items[k][2][a] = items[k][2][b]

\* C11: a line definition that lists the same station more than once is
\* rejected at build time: the builder never comes to its return statement,
\* where it hands out a graph, with such a definition among its line_items
C11_MalformedRejected == Malformed(line_items) => bpc # "return"

\* C12: a returned path starts at the source and ends at the destination,
\* the per-edge line list has one entry per hop, every two consecutive
\* stations are joined by an edge of the graph, and the i-th line is one of
\* the labels of the edge between the i-th and the (i+1)-th station
C12_WellFormed ==
    \A q \in Queries :
        Done(q) /\ Found(q) =>
            LET path == result[q][1]
                lines == result[q][4]
            IN  /\ path[1] = src[q]
                /\ path[Len(path)] = dest[q]
                /\ Len(lines) = Len(path) - 1
                /\ \A k \in 1..(Len(path) - 1) :
                       /\ path[k + 1] \in Nbrs(graph, path[k])
                       /\ k \in DOMAIN lines
                       /\ lines[k] \in graph[path[k]][path[k + 1]]

\* a returned route of at least two hops that changes line
C12_Witness ==
    \E q \in Queries :
        /\ Done(q) /\ Found(q)
        /\ Len(result[q][1]) >= 3
        /\ result[q][4][1] # result[q][4][2]

\* the positions at which two consecutive entries of a line list differ
Changes(lines) == {k \in 1..(Len(lines) - 1) : lines[k] # lines[k + 1]}

\* C13: the returned switch count is the number of positions at which two
\* consecutive entries of the returned per-edge line list differ; the first
\* hop is no switch
C13_SwitchCount ==
    \A q \in Queries :
        Done(q) /\ Found(q) => result[q][2] = Cardinality(Changes(result[q][4]))

\* a returned route to a destination for which the search had also pushed an
\* entry whose first hop was counted as a switch
C13_Witness ==
    \E q \in Queries :
        /\ Done(q) /\ Found(q)
        /\ Len(result[q][4]) >= 1
        /\ \E e \in pushed[q] :
              /\ e[3] = dest[q] /\ e[1] = 1
              /\ e[5] # None /\ e[5][5] = None

\* the step of call q is a pop, and what it pops costs more than the best
\* known cost recorded for its state
PopsWorse(q) ==
    /\ pc[q] = "loop"
    /\ pq'[q] # pq[q]
    /\ <<cur'[q][3], cur'[q][4]>> \in DOMAIN visited[q]
    /\ LexLess(visited[q][<<cur'[q][3], cur'[q][4]>>], <<cur'[q][1], cur'[q][2]>>)

\* the step of call q starts no neighbor loop and sets no best_final
NotExpanded(q) ==
    /\ pc'[q] = "loop"
    /\ todo'[q] = todo[q]
    /\ best_final'[q] = best_final[q]
    /\ expansions'[q] = expansions[q]

RelaxedAtMostOnce ==
    \A q \in Queries : \A key \in DOMAIN expansions[q] : expansions[q][key] <= 1

\* C14: a popped entry that costs more than the best known cost of its
\* (station, line) state is not expanded, and the neighbors of every
\* (station, line) state are relaxed at most once in a call
C14_StaleSkipped ==
    /\ []RelaxedAtMostOnce
    /\ [][\A q \in Queries : PopsWorse(q) => NotExpanded(q)]_vars

\* a stale entry has just been popped and skipped, after its state had been
\* expanded from the cheaper entry
C14_Witness ==
    \E q \in Queries :
        /\ pc[q] = "loop"
        /\ cur[q] # None
        /\ Stale(visited[q], cur[q])
        /\ Count(expansions[q], <<cur[q][3], cur[q][4]>>) = 1

\* the (switches, stations_count) cost a frontier entry carries
Cost(e) == <<e[1], e[2]>>

\* a pop of call q that follows an earlier pop takes no cheaper entry
PopsInOrder(q) ==
    pc[q] = "loop" /\ pq'[q] # pq[q] /\ cur[q] # None
        => ~LexLess(Cost(cur'[q]), Cost(cur[q]))

\* what call q pushes while it expands the popped entry costs more than it
PushesDearer(q) ==
    pc[q] = "relax" =>
        \A e \in pushed'[q] \ pushed[q] : LexLess(Cost(cur[q]), Cost(e))

\* the destination entry the loop stopped at is a cheapest one among the
\* destination entries pushed
FirstDestinationLeast ==
    \A q \in Queries :
        best_final[q] # None =>
            \A e \in pushed[q] :
                e[3] = dest[q] => ~LexLess(Cost(e), Cost(best_final[q]))

\* C15: the costs of successively popped entries never decrease, every
\* entry pushed during an expansion costs strictly more than the expanded
\* entry, and the first destination entry popped has the least cost of all
\* destination entries pushed
C15_MonotonePops ==
    /\ [][\A q \in Queries : PopsInOrder(q) /\ PushesDearer(q)]_vars
    /\ []FirstDestinationLeast

\* the loop has stopped at a destination entry while a dearer destination
\* entry had been pushed too
C15_Witness ==
    \E q \in Queries :
        /\ best_final[q] # None
        /\ Len(RevEntries(best_final[q])) >= 2
        /\ \E e \in pushed[q] :
              e[3] = dest[q] /\ LexLess(Cost(best_final[q]), Cost(e))

\* the entries pushed so far by call q for the (station, line) state key
PushedFor(q, key) == {e \in pushed[q] : <<e[3], e[4]>> = key}

\* C16: in every state of a call, the best known cost recorded for a
\* (station, line) state is the cost of the cheapest entry pushed so far for
\* that state, for source states as well as for relaxed states
C16_BestCostTable ==
    \A q \in Queries : \A key \in DOMAIN visited[q] :
        /\ \E e \in PushedFor(q, key) : Cost(e) = visited[q][key]
        /\ \A e \in PushedFor(q, key) : ~LexLess(Cost(e), visited[q][key])

\* call q is in its initialisation or in its search loop
Searching(q) == pc[q] \in {"init", "loop", "relax"}

\* call q has left the search loop: by the break at a destination entry or
\* by the frontier running empty
Stopped(q) ==
    /\ pc[q] \in {"exit", "done"}
    /\ best_final[q] # None \/ pq[q] = {}

\* a push during an expansion is the first for its state or records a
\* strictly lower cost than the state had, and no recorded cost is ever
\* raised or dropped
PushLowers(q) ==
    /\ \A key \in DOMAIN visited[q] :
           /\ key \in DOMAIN visited'[q]
           /\ ~LexLess(visited[q][key], visited'[q][key])
    /\ pc[q] = "relax" /\ pushes'[q] # pushes[q] =>
           \E e \in pushed'[q] :
               /\ e[5] = cur[q]
               /\ visited'[q][<<e[3], e[4]>>] = Cost(e)
               /\ <<e[3], e[4]>> \in DOMAIN visited[q] =>
                      LexLess(Cost(e), visited[q][<<e[3], e[4]>>])

\* C17: a call that has entered the search eventually leaves the loop, by
\* popping a destination entry or by emptying the frontier, and every push
\* for a (station, line) state strictly lowers that state's recorded cost
C17_Termination ==
    /\ \A q \in Queries : Searching(q) ~> Stopped(q)
    /\ [][\A q \in Queries : PushLowers(q)]_vars

\* the loop has stopped on an empty frontier after several pushes
C17_Witness ==
    \E q \in Queries :
        /\ pc[q] = "exit"
        /\ pq[q] = {}
        /\ best_final[q] = None
        /\ pushes[q] >= 2

\* C18: a returned station path never holds the same station twice
C18_SimplePath ==
    \A q \in Queries :
        Done(q) /\ Found(q) =>
            \A a, b \in DOMAIN result[q][1] :
                a # b => result[q][1][a] # result[q][1][b]

\* seq lists the members of S in ascending order, each once
SortedListOf(seq, S) ==
    /\ Range(seq) = S
    /\ \A a, b \in DOMAIN seq : a < b => seq[a] < seq[b]

\* C19: once both builders have run on the same lines, the keys of
\* metro_graph are the keys of station_lines, and metro_graph lists for every
\* station its neighbors in graph, sorted and each once (none for a station
\* without an edge)
C19_BuilderAgreement ==
    bpc = "return" /\ metro_graph # None =>
        /\ DOMAIN metro_graph = DOMAIN station_lines
        /\ \A s \in DOMAIN metro_graph :
               SortedListOf(metro_graph[s], Nbrs(graph, s))

\* both builders are through, and some station has two neighbors while the
\* lines name stations in descending order somewhere
C19_Witness ==
    /\ bpc = "return" /\ metro_graph # None
    /\ \E s \in DOMAIN metro_graph : Len(metro_graph[s]) >= 2
    /\ \E k \in DOMAIN line_items :
          /\ Len(line_items[k][2]) >= 2
          /\ line_items[k][2][1] > line_items[k][2][2]

\* the first four fields of a frontier entry
Fields4(e) == <<e[1], e[2], e[3], e[4]>>

\* C20: no two entries ever pushed in a call share (switches, stations,
\* station, line): as many different quadruples were pushed as there were
\* pushes, so the heap never has to order two entries by their back-pointers
\* and the call never raises on a None back-pointer
C20_DistinctEntries ==
    \A q \in Queries :
        /\ Cardinality({Fields4(e) : e \in pushed[q]}) = pushes[q]
        /\ pc[q] # "raised"

\* the heap holds two entries for the same (station, line) state at once
C20_Witness ==
    \E q \in Queries : \E x, y \in pq[q] :
        /\ x # y
        /\ <<x[3], x[4]>> = <<y[3], y[4]>>
        /\ pushes[q] >= 3

====
